---- MODULE Spec2Model ----
(***************************************************************************)
(* Model of the Model Scoring & Attribution Engine of energyagentai:       *)
(* src/shared_tools/mlagent.py (SimpleXGBoostScorer, load_and_score,       *)
(* batch_score, analyze_model_with_shap_tool).                             *)
(*                                                                         *)
(* Specifications:                                                         *)
(*   SpecPrepare  prepare_features applied to bounded inputs               *)
(*   SpecExplain  create_shap_summary and the direction filter             *)
(*   Spec         requests running concurrently on threads                 *)
(*   SpecSeq      the same requests, one at a time                         *)
(***************************************************************************)
EXTENDS Integers, Sequences, FiniteSets, TLC

VARIABLES
    pfData,      \* prepare_features: the `data` argument
    pfCats,      \* prepare_features: what load_categories_from_gcs returns
    pfOut,       \* prepare_features: its outcome (matrix or raised exception)
    pfAgain,     \* prepare_features applied to the matrix it returned
    shX,         \* create_shap_summary: X
    shVals,      \* create_shap_summary: shap_values
    shBase,      \* create_shap_summary: base_value
    shOut,       \* create_shap_summary: returned summary
    anEvent,     \* analyze_model_with_shap_tool: target_event
    anOut,       \* analyze_model_with_shap_tool: outcome after the filter
    blobs,       \* object storage: state of every blob
    scorers,     \* SimpleXGBoostScorer instances of the process
    thr,         \* per thread: the request it runs and where it is
    fetched,     \* history: downloads started, per scorer and blob
    loaded,      \* history: download + deserialize completed, per scorer and blob
    served,      \* history: requests completed
    answers,     \* history: what the long-lived scorer gave back, per request
    tieOrder,    \* the build: how its quicksort leaves keys that compare equal
    bvProduct,   \* sales agent: the product asked about, if the caller is it
    bvShap,      \* score_model: shap_enabled
    bvName,      \* score_model: model_name
    bvFile,      \* score_model: model_filename
    bvBase       \* score_model: base_value, once looked up

prepVars == <<pfData, pfCats, pfOut, pfAgain>>
explVars == <<shX, shVals, shBase, shOut, anEvent, anOut>>
pipeVars == <<blobs, scorers, thr, fetched, loaded, served, answers>>
baseVars == <<bvProduct, bvShap, bvName, bvFile, bvBase>>
vars == <<pfData, pfCats, pfOut, pfAgain, shX, shVals, shBase, shOut, anEvent, anOut,
          blobs, scorers, thr, fetched, loaded, served, answers, tieOrder, baseVars>>

(***************************************************************************)
(* Bounds                                                                  *)
(***************************************************************************)
MaxRows == 2

MaxThreads == 2

MaxRequests == 2

(***************************************************************************)
(* Generic helpers                                                         *)
(***************************************************************************)
Range(s) == {s[i] : i \in DOMAIN s}

SeqOfLen(S, n) == [1..n -> S]

SeqUpTo(S, n) == UNION {SeqOfLen(S, k) : k \in 0..n}

Occurrences(s, x) == Cardinality({i \in DOMAIN s : s[i] = x})

(***************************************************************************)
(* Feature definitions (a prefix of each of the two lists of __init__)     *)
(***************************************************************************)
cat_features == <<"customer_segment", "city">>

num_features == <<"tenure_months">>

feature_cols == cat_features \o num_features

(***************************************************************************)
(* Cells.  A raw cell is what the caller's record holds; every cell is a   *)
(* record tagged with its Python type.                                     *)
(***************************************************************************)
Str(s) == [t |-> "str", s |-> s]

Num(n) == [t |-> "num", n |-> n]

NaN == [t |-> "nan"]

None == [t |-> "none"]

\* str(value) as Series.astype(str) gives it
AsTypeStr(c) ==
    CASE c.t = "str"  -> c.s
      [] c.t = "nan"  -> "nan"
      [] c.t = "none" -> "None"
      [] c.t = "num"  -> IF c.n = 0 THEN "0" ELSE "5"   \* the numbers cells hold

\* Series.replace(old, new): whole-cell match only
ReplaceValue(s, old, new) == IF s = old THEN new ELSE s

\* str.lower() on the strings of the model's alphabet
StrLower(s) ==
    CASE s = "Calgary"   -> "calgary"
      [] s = " Calgary " -> " calgary "
      [] s = "None"      -> "none"
      [] s = "NaN"       -> "nan"
      [] s = "Unknown"   -> "unknown"
      [] OTHER           -> s

\* str.strip() on the strings of the model's alphabet
StrStrip(s) ==
    CASE s = " calgary " -> "calgary"
      [] s = " "         -> ""
      [] OTHER           -> s

\* the chain with the default of line 137 spelled with a capital
NormalizeCatCapitalDefault(c) ==
    LET s1 == AsTypeStr(c)
        s2 == ReplaceValue(s1, "nan", "unknown")
        s3 == StrLower(s2)
        s4 == StrStrip(s3)
        s5 == ReplaceValue(s4, "", "Unknown")
    IN  s5

\* lines 132-138: the normalisation chain of one categorical cell
NormalizeCat(c) ==
    LET s1 == AsTypeStr(c)
        s2 == ReplaceValue(s1, "nan", "unknown")
        s3 == StrLower(s2)
        s4 == StrStrip(s3)
        s5 == ReplaceValue(s4, "", "unknown")
    IN  s5

\* pd.Categorical(values, categories): a value outside categories is NaN
AsCategorical(s, categories) ==
    IF s \in Range(categories) THEN Str(s) ELSE NaN

\* lines 141, 149: `training_categories and col in training_categories`
\* (None and the empty dict are both falsy)
HasVocabulary(training_categories, col) ==
    /\ training_categories.t = "dict"
    /\ DOMAIN training_categories.d # {}
    /\ col \in DOMAIN training_categories.d

\* lines 141-146: one cell of a categorical column present in the input
CatCellPresent(c, training_categories, col) ==
    LET s == NormalizeCat(c) IN
    IF HasVocabulary(training_categories, col)
    THEN LET valid_categories == training_categories.d[col]
             x == IF s \in Range(valid_categories) THEN s ELSE "unknown"
         IN  AsCategorical(x, valid_categories)
    ELSE Str(s)

\* lines 149-152: one cell of a categorical column absent from the input
CatCellAbsent(training_categories, col) ==
    IF HasVocabulary(training_categories, col)
    THEN AsCategorical("unknown", training_categories.d[col])
    ELSE Str("unknown")

\* pd.to_numeric(errors='coerce') on one cell: NaN when it does not parse
ToNumeric(c) ==
    CASE c.t = "num" -> c
      [] c.t = "str" -> IF c.s = "5" THEN Num(5)
                        ELSE IF c.s = "0" THEN Num(0) ELSE NaN
      [] OTHER       -> NaN

\* line 157: pd.to_numeric(...).fillna(0)
NumCellPresent(c) ==
    LET v == ToNumeric(c) IN IF v.t = "nan" THEN Num(0) ELSE v

\* line 122: df.columns.str.replace(' ', '').str.lower()
CleanColumn(name) ==
    CASE name = "City"           -> "city"
      [] name = "ci ty"          -> "city"
      [] name = "Tenure_Months"  -> "tenure_months"
      [] name = "Tenure Months"  -> "tenuremonths"
      [] name = "Customer ID"    -> "customerid"
      [] OTHER                   -> name

(***************************************************************************)
(* prepare_features (lines 108-163).  A frame is positional: cols is the   *)
(* column Index, rows the cells under it.                                  *)
(***************************************************************************)
Raised(exc) == [st |-> "raised", exc |-> exc]

Returned(v) == [st |-> "returned", v |-> v]

Pending == [st |-> "pending"]

\* the strings a categorical cell can hold, in Python's string order
LexOrder ==
    <<"Unknown", "atlantis", "calgary", "edmonton", "family", "none", "unknown">>

SortedUnique(S) == SelectSeq(LexOrder, LAMBDA x : x \in S)

IndexOf(s, x) == CHOOSE i \in DOMAIN s : s[i] = x

\* lines 114-119: pd.DataFrame([data]) / pd.DataFrame(data) / data.copy().
\* A frame built from no records has a RangeIndex for its columns.
ToDataFrame(data) ==
    [cols |-> data.cols, rows |-> data.rows, strcols |-> Len(data.cols) > 0]

\* lines 130-159: the frame after both feature loops.  A column processed
\* in place keeps its position; a column synthesized is appended.
ProcessFeatures(df, names, training_categories) ==
    LET absentCat == SelectSeq(cat_features, LAMBDA f : f \notin Range(names))
        absentNum == SelectSeq(num_features, LAMBDA f : f \notin Range(names))
        present(row) ==
            [j \in DOMAIN names |->
                IF names[j] \in Range(cat_features)
                THEN CatCellPresent(row[j], training_categories, names[j])
                ELSE IF names[j] \in Range(num_features)
                THEN NumCellPresent(row[j])
                ELSE row[j]]
        addedCat == [k \in DOMAIN absentCat |->
                        CatCellAbsent(training_categories, absentCat[k])]
        addedNum == [k \in DOMAIN absentNum |-> Num(0)]
        column(f) == {NormalizeCat(df.rows[r][IndexOf(names, f)]) :
                         r \in DOMAIN df.rows}
    IN  [cols |-> names \o absentCat \o absentNum,
         rows |-> [r \in DOMAIN df.rows |->
                      present(df.rows[r]) \o addedCat \o addedNum],
         \* the categories of each categorical dtype: the vocabulary, or
         \* (astype('category')) the sorted distinct values of the column
         cats |-> [f \in Range(cat_features) |->
                      IF HasVocabulary(training_categories, f)
                      THEN training_categories.d[f]
                      ELSE IF f \in Range(names) THEN SortedUnique(column(f))
                      ELSE IF df.rows = <<>> THEN <<>> ELSE <<"unknown">>]]

\* line 163: df[feature_cols]
SelectColumns(df, wanted) ==
    LET pos == [k \in DOMAIN wanted |-> IndexOf(df.cols, wanted[k])] IN
    [cols |-> [k \in DOMAIN wanted |-> df.cols[pos[k]]],
     rows |-> [r \in DOMAIN df.rows |->
                  [k \in DOMAIN wanted |-> df.rows[r][pos[k]]]],
     cats |-> df.cats]

\* the frame returned as it stands, without the selection of line 163
ReturnFrameUnselected(df) == [cols |-> df.cols, rows |-> df.rows, cats |-> df.cats]

\* lines 161-163
ReturnFrame(df) == SelectColumns(df, feature_cols)

prepare_features(data, training_categories) ==
    LET df0 == ToDataFrame(data) IN
    IF ~df0.strcols
    THEN Raised("AttributeError")     \* line 122: .str on a non-string Index
    ELSE
    LET names == [j \in DOMAIN df0.cols |-> CleanColumn(df0.cols[j])] IN
    IF \E f \in Range(cat_features) : Occurrences(names, f) > 1
    THEN Raised("AttributeError")     \* line 135: df[col] is a DataFrame, no .str
    ELSE IF \E f \in Range(num_features) : Occurrences(names, f) > 1
    THEN Raised("TypeError")          \* line 157: pd.to_numeric of a DataFrame
    ELSE Returned(ReturnFrame(ProcessFeatures(df0, names, training_categories)))

(***************************************************************************)
(* Inputs of prepare_features                                              *)
(***************************************************************************)
RawCat == {Str(" Calgary "), Str("atlantis"), Str(" "), Str("unknown"), NaN, None}

RawNum == {Num(5), Str("5"), Str("abc"), NaN}

RawOther == {Num(5)}

RawCells(rawName) ==
    LET n == CleanColumn(rawName) IN
    IF n \in Range(cat_features) THEN RawCat
    ELSE IF n \in Range(num_features) THEN RawNum
    ELSE RawOther

Layouts ==
    { <<>>,
      <<"city">>,
      <<"City", "tenure_months">>,
      <<"Tenure_Months", "Customer ID", "ci ty">>,
      <<"Tenure Months">>,
      <<"customer_segment">>,
      <<"city", "City">>,
      <<"tenure_months", "Tenure_Months">> }

RowsOver(cols) ==
    {row \in [DOMAIN cols -> RawCat \cup RawNum \cup RawOther] :
        \A j \in DOMAIN cols : row[j] \in RawCells(cols[j])}

\* a single record, a list of records, or a table
DataOver(cols) ==
    {[kind |-> "dict", cols |-> cols, rows |-> <<row>>] :
        row \in (IF cols = <<>> THEN {} ELSE RowsOver(cols))}
    \cup
    {[kind |-> k, cols |-> cols, rows |-> rows] :
        k \in {"list", "frame"},
        rows \in (IF cols = <<>> THEN {<<>>}
                  ELSE SeqUpTo(RowsOver(cols), MaxRows) \ {<<>>})}
    \cup
    \* a table may have columns and no rows; a list of no records has neither
    {[kind |-> "frame", cols |-> cols, rows |-> <<>>] :
        c \in (IF cols = <<>> THEN {} ELSE {cols})}

Dict(d) == [t |-> "dict", d |-> d]

\* documents train_categories.json may hold, and None when it did not load
FullVocabulary ==
    Dict("city" :> <<"calgary", "edmonton", "unknown">>
         @@ "customer_segment" :> <<"family", "unknown">>)

Vocabularies ==
    { None,
      FullVocabulary,
      Dict("city" :> <<"calgary", "edmonton">>),
      Dict("customer_segment" :> <<"family", "unknown">>),
      Dict("city" :> <<"calgary", "edmonton">>
           @@ "customer_segment" :> <<"family">>) }

\* the parts of the state a specification leaves alone hold Pending
InitPrepare ==
    /\ \E cols \in Layouts : pfData \in DataOver(cols)
    /\ pfCats \in Vocabularies
    /\ pfOut = Pending
    /\ pfAgain = Pending
    /\ shX = Pending /\ shVals = Pending /\ shBase = Pending
    /\ shOut = Pending /\ anEvent = Pending /\ anOut = Pending
    /\ blobs = Pending /\ scorers = Pending /\ thr = Pending
    /\ fetched = Pending /\ loaded = Pending /\ served = Pending
    /\ answers = Pending
    /\ tieOrder = "unobserved"
    /\ bvProduct = Pending /\ bvShap = Pending /\ bvName = Pending
    /\ bvFile = Pending /\ bvBase = Pending

PrepareFeatures ==
    /\ pfOut.st = "pending"
    /\ pfOut' = prepare_features(pfData, pfCats)
    /\ UNCHANGED <<pfData, pfCats, pfAgain>>

\* line 119: a matrix prepare_features returned, passed in as `data`
AsData(X) == [kind |-> "frame", cols |-> X.cols, rows |-> X.rows]

\* prepare_features called on its own output, with the same vocabulary
PrepareAgain ==
    /\ pfOut.st = "returned"
    /\ pfAgain.st = "pending"
    /\ pfAgain' = prepare_features(AsData(pfOut.v), pfCats)
    /\ UNCHANGED <<pfData, pfCats, pfOut>>

(***************************************************************************)
(* SpecPrepare: prepare_features applied once to each bounded input        *)
(***************************************************************************)
NextPrepare ==
    \/ PrepareFeatures /\ UNCHANGED <<explVars, pipeVars, tieOrder, baseVars>>
    \/ PrepareAgain /\ UNCHANGED <<explVars, pipeVars, tieOrder, baseVars>>

SpecPrepare ==
    InitPrepare /\ [][NextPrepare]_vars

\* the input cell of feature f in row r (the column whose cleaned name is f)
InputCell(data, r, f) ==
    data.rows[r][CHOOSE j \in DOMAIN data.cols : CleanColumn(data.cols[j]) = f]

InputHas(data, f) == \E j \in DOMAIN data.cols : CleanColumn(data.cols[j]) = f

OutCell(out, r, f) == out.v.rows[r][IndexOf(out.v.cols, f)]

\* C3: whenever prepare_features returns, the columns of the returned
\* matrix are exactly cat_features followed by num_features, in that
\* order, and every row has one cell per such column.
C3_ColumnsAreFeatureOrder ==
    pfOut.st = "returned" =>
        /\ pfOut.v.cols = cat_features \o num_features
        /\ \A r \in DOMAIN pfOut.v.rows :
               Len(pfOut.v.rows[r]) = Len(cat_features) + Len(num_features)

\* C3 witness: a matrix returned for an input with an extra column, columns
\* out of feature order and a feature missing
C3_Witness ==
    /\ pfOut.st = "returned"
    /\ pfData.cols = <<"Tenure_Months", "Customer ID", "ci ty">>
    /\ Len(pfData.rows) = MaxRows

\* C4 (as claimed): for every categorical feature with a trained
\* vocabulary, an input value outside the vocabulary is the cell "unknown"
\* in the returned matrix, never a missing cell.
C4_OutOfVocabularyIsUnknown ==
    pfOut.st = "returned" =>
        \A r \in DOMAIN pfData.rows : \A f \in Range(cat_features) :
            (/\ HasVocabulary(pfCats, f)
             /\ InputHas(pfData, f)
             /\ InputCell(pfData, r, f).t = "str"
             /\ NormalizeCat(InputCell(pfData, r, f)) \notin Range(pfCats.d[f]))
            => OutCell(pfOut, r, f) = Str("unknown")

(***************************************************************************)
(* Fixed-point numbers.  A log-odds value is an integer count of 1/Unit;   *)
(* Unit is a multiple of every group size, so a group mean is exact.  A    *)
(* probability is an integer count of 1/1000000.                           *)
(***************************************************************************)
RECURSIVE Factorial(_)
Factorial(n) == IF n <= 1 THEN 1 ELSE n * Factorial(n - 1)

Unit == 100 * Factorial(MaxRows)

Abs(x) == IF x < 0 THEN -x ELSE x

RECURSIVE SumOver(_, _)
\* sum of f[i] over the finite set I
SumOver(f, I) ==
    IF I = {} THEN 0
    ELSE LET i == CHOOSE j \in I : TRUE IN f[i] + SumOver(f, I \ {i})

\* 1 / (1 + exp(-k)) at the integers k = -8 .. 8
SigmoidKnots ==
    <<335, 911, 2473, 6693, 17986, 47426, 119203, 268941, 500000,
      731059, 880797, 952574, 982014, 993307, 997527, 999089, 999665>>

\* lines 165-167: sigmoid, interpolated linearly between the knots
sigmoid(x) ==
    IF x <= -8 * Unit THEN SigmoidKnots[1]
    ELSE IF x >= 8 * Unit THEN SigmoidKnots[17]
    ELSE LET k    == (x + 8 * Unit) \div Unit
             frac == (x + 8 * Unit) % Unit
         IN  SigmoidKnots[k + 1]
               + ((SigmoidKnots[k + 2] - SigmoidKnots[k + 1]) * frac) \div Unit

\* the table as it was before the surge protection model was added
base_valuesBeforeSurgeProtection ==
    [f \in {"churn_model.pkl", "crosssell_hvac_model.pkl",
            "crosssell_insurance_model.pkl", "crosssell_solar_model.pkl",
            "upsell_efficiency_analysis_model.pkl", "upsell_green_plan_model.pkl"} |->
        CASE f = "churn_model.pkl" -> -14
          [] f = "crosssell_hvac_model.pkl" -> 58
          [] f = "crosssell_insurance_model.pkl" -> 51
          [] f = "crosssell_solar_model.pkl" -> 16
          [] f = "upsell_efficiency_analysis_model.pkl" -> 23
          [] f = "upsell_green_plan_model.pkl" -> -55]

\* lines 55-63: base_values, in hundredths
base_values ==
    [f \in {"churn_model.pkl", "crosssell_hvac_model.pkl",
            "crosssell_insurance_model.pkl", "crosssell_solar_model.pkl",
            "upsell_efficiency_analysis_model.pkl", "upsell_green_plan_model.pkl",
            "upsell_surge_protection_model.pkl"} |->
        CASE f = "churn_model.pkl" -> -14
          [] f = "crosssell_hvac_model.pkl" -> 58
          [] f = "crosssell_insurance_model.pkl" -> 51
          [] f = "crosssell_solar_model.pkl" -> 16
          [] f = "upsell_efficiency_analysis_model.pkl" -> 23
          [] f = "upsell_green_plan_model.pkl" -> -55
          [] f = "upsell_surge_protection_model.pkl" -> -6]

\* line 319: self.base_values.get(model_filename, 0), in 1/Unit
BaseValueOf(model_filename) ==
    IF model_filename \in DOMAIN base_values
    THEN base_values[model_filename] * (Unit \div 100)
    ELSE 0

(***************************************************************************)
(* create_shap_summary (lines 169-263)                                     *)
(***************************************************************************)
Rows(X) == DOMAIN X.rows

Col(X, f) == IndexOf(X.cols, f)

\* line 184: np.mean(np.abs(shap_values[:, idx])), in 1/Unit
FeatureImportance(X, shap_values, f) ==
    LET feature_idx == Col(X, f) IN
    (SumOver([r \in Rows(X) |-> Abs(shap_values[r][feature_idx])], Rows(X)) * Unit)
        \div Cardinality(Rows(X))

\* line 188: sort_values on one column sorts with numpy's quicksort, which
\* is not stable: where keys compare equal the order is the build's, not
\* the caller's.  Two outcomes stand for it: the equal keys left in their
\* order, and the equal keys in the opposite order.
TieOrders == {"kept", "reversed"}

\* position i comes before position j among equal keys
TieBefore(i, j) == IF tieOrder = "kept" THEN i < j ELSE i > j

\* lines 180-184: feature_importances, by position in the feature order
FeatureImportances(X, shap_values) ==
    [j \in DOMAIN feature_cols |-> FeatureImportance(X, shap_values, feature_cols[j])]

\* features of equal importance given the same rank
RankAmongShared(feature_importances, k) ==
    1 + Cardinality({j \in DOMAIN feature_importances :
            feature_importances[j] > feature_importances[k]})

\* lines 187-189: the position of the k-th feature once the importances are
\* sorted in descending order
RankAmong(feature_importances, k) ==
    1 + Cardinality({j \in DOMAIN feature_importances :
            \/ feature_importances[j] > feature_importances[k]
            \/ /\ feature_importances[j] = feature_importances[k]
               /\ TieBefore(j, k)})

\* lines 187-190: sort by Importance descending, Rank = 1 .. F in the
\* sorted order
ImportanceRank(X, shap_values, f) ==
    RankAmong(FeatureImportances(X, shap_values), IndexOf(feature_cols, f))

\* the values of a numeric column in ascending order
SortedValues(v) ==
    LET pos(i) == 1 + Cardinality({j \in DOMAIN v :
                        v[j] < v[i] \/ (v[j] = v[i] /\ j < i)})
    IN  [p \in DOMAIN v |-> v[CHOOSE i \in DOMAIN v : pos(i) = p]]

\* Series.quantile(k / 10), linear interpolation, times 10
QuantileEdge(sorted, k) ==
    LET h  == k * (Len(sorted) - 1)
        lo == h \div 10
        r  == h % 10
    IN  IF r = 0 THEN 10 * sorted[lo + 1]
        ELSE 10 * sorted[lo + 1] + r * (sorted[lo + 2] - sorted[lo + 1])

\* line 207: pd.qcut(values, 10, duplicates='drop'): per row the interval
\* (lo, hi] it falls in, or NaN.  Duplicate edges are dropped; the lowest
\* edge is included in the first interval; a value falls in no interval
\* when a single edge is left.
QCut(v) ==
    LET sorted == SortedValues(v)
        edges  == {QuantileEdge(sorted, k) : k \in 0..10}
        below(x) == Cardinality({e \in edges : e < x})
        id(x)  == IF x = QuantileEdge(sorted, 0) THEN 1 ELSE below(x)
        lower(i) == CHOOSE e \in edges : Cardinality({d \in edges : d < e}) = i - 1
    IN  [r \in DOMAIN v |->
            LET i == id(10 * v[r]) IN
            IF i = 0 \/ i = Cardinality(edges) THEN NaN
            ELSE [t |-> "interval", lo |-> lower(i), hi |-> lower(i + 1)]]

\* lines 205-212: the Group column of one feature
GroupColumn(X, f) ==
    IF f \in Range(num_features)
    THEN QCut([r \in Rows(X) |-> X.rows[r][Col(X, f)].n])
    ELSE [r \in Rows(X) |-> X.rows[r][Col(X, f)]]

\* groupby('Group', observed=True): the keys observed, NaN left out, in the
\* order of the categories (intervals by their lower edge)
GroupKeys(X, f) ==
    LET g    == GroupColumn(X, f)
        keys == {g[r] : r \in Rows(X)} \ {NaN}
    IN  IF f \in Range(num_features)
        THEN LET pos(k) == 1 + Cardinality({j \in keys : j.lo < k.lo})
             IN  [p \in 1..Cardinality(keys) |-> CHOOSE k \in keys : pos(k) = p]
        ELSE SelectSeq([i \in DOMAIN X.cats[f] |-> Str(X.cats[f][i])],
                       LAMBDA k : k \in keys)

\* the summary row with the change measured against a baseline probability
\* of one half, whatever base_value is
GroupRowAgainstHalf(X, shap_values, base_value, f, key) ==
    LET g       == GroupColumn(X, f)
        members == {r \in Rows(X) : g[r] = key}
        mean    == (SumOver([r \in Rows(X) |-> shap_values[r][Col(X, f)]],
                            members) * Unit) \div Cardinality(members)
        change  == sigmoid(base_value + mean) - sigmoid(0)
    IN  [feature |-> f,
         feature_group |-> key,
         feature_effect |-> IF change > 0 THEN "increases" ELSE "decreases",
         probability_contribution |-> Abs(change),
         Feature_Importance_Rank |-> ImportanceRank(X, shap_values, f),
         SHAP_Value |-> mean,
         rows |-> members]

\* lines 215-220 and 228-248: one row of the summary.  `rows` records the
\* rows of the batch that pandas averaged into the group.
GroupRow(X, shap_values, base_value, f, key) ==
    LET g       == GroupColumn(X, f)
        members == {r \in Rows(X) : g[r] = key}
        mean    == (SumOver([r \in Rows(X) |-> shap_values[r][Col(X, f)]],
                            members) * Unit) \div Cardinality(members)
        change  == sigmoid(base_value + mean) - sigmoid(base_value)
    IN  [feature |-> f,
         feature_group |-> key,
         feature_effect |-> IF change > 0 THEN "increases" ELSE "decreases",
         probability_contribution |-> Abs(change),
         Feature_Importance_Rank |-> ImportanceRank(X, shap_values, f),
         SHAP_Value |-> mean,
         rows |-> members]

RECURSIVE ConcatAll(_)
ConcatAll(ss) == IF ss = <<>> THEN <<>> ELSE Head(ss) \o ConcatAll(Tail(ss))

\* lines 193-224: result_df
ResultRows(X, shap_values, base_value) ==
    ConcatAll([k \in DOMAIN feature_cols |->
        LET f    == feature_cols[k]
            keys == GroupKeys(X, f)
        IN  [i \in DOMAIN keys |-> GroupRow(X, shap_values, base_value, f, keys[i])]])

\* lines 254-257: sort_values by rank ascending, contribution descending
\* (rows that tie keep their order)
SortSummary(rs) ==
    LET before(i, j) ==
            \/ rs[i].Feature_Importance_Rank < rs[j].Feature_Importance_Rank
            \/ /\ rs[i].Feature_Importance_Rank = rs[j].Feature_Importance_Rank
               /\ \/ rs[i].probability_contribution > rs[j].probability_contribution
                  \/ /\ rs[i].probability_contribution = rs[j].probability_contribution
                     /\ i < j
        pos(i) == 1 + Cardinality({j \in DOMAIN rs : before(j, i)})
    IN  [p \in DOMAIN rs |-> rs[CHOOSE i \in DOMAIN rs : pos(i) = p]]

\* a DataFrame of summary rows; built from no rows it has no columns
SummaryFrame(rs) == [columns |-> rs # <<>>, rows |-> rs]

create_shap_summary(shap_values, X, base_value) ==
    SummaryFrame(SortSummary(ResultRows(X, shap_values, base_value)))

(***************************************************************************)
(* analyze_model_with_shap_tool, from the summary on (lines 405-447)       *)
(***************************************************************************)
TopFactors == 15

DetailRows == 30

\* the text lower-cased and trimmed as well
LowerEventStripped(e) == IF e \in {"Positive", "positive "} THEN "positive" ELSE e

\* str.lower() on the target_event strings of the model
LowerEvent(e) == IF e = "Positive" THEN "positive" ELSE e

\* the positive view with the comparison not strict
PositiveViewWithZero(rs) == SelectSeq(rs, LAMBDA g : g.SHAP_Value >= 0)

\* line 409
PositiveView(rs) == SelectSeq(rs, LAMBDA g : g.SHAP_Value > 0)

\* line 411
NegativeView(rs) == SelectSeq(rs, LAMBDA g : g.SHAP_Value < 0)

\* lines 408-411
FilterDirection(rs, target_event) ==
    IF LowerEvent(target_event) = "positive"
    THEN PositiveView(rs)
    ELSE NegativeView(rs)

\* line 417: sort_values('probability_contribution', ascending=False), one
\* column again: equal contributions come in the build's order
SortByContribution(rs) ==
    LET before(i, j) ==
            \/ rs[i].probability_contribution > rs[j].probability_contribution
            \/ /\ rs[i].probability_contribution = rs[j].probability_contribution
               /\ TieBefore(i, j)
        pos(i) == 1 + Cardinality({j \in DOMAIN rs : before(j, i)})
    IN  [p \in DOMAIN rs |-> rs[CHOOSE i \in DOMAIN rs : pos(i) = p]]

SeqHead(rs, n) == SubSeq(rs, 1, IF Len(rs) < n THEN Len(rs) ELSE n)

\* lines 405-450, given the summary score_model returned
AnalyzeSummary(shap_summary, target_event) ==
    IF ~shap_summary.columns
    THEN \* line 409/411: KeyError 'SHAP_Value', caught at line 449
         [kind |-> "error", text |-> "Error in SHAP analysis"]
    ELSE LET filtered_shap == FilterDirection(shap_summary.rows, target_event) IN
         IF Len(filtered_shap) = 0
         THEN [kind |-> "no_factors", text |-> "No contributing factors found"]
         ELSE LET sorted == SortByContribution(filtered_shap) IN
              [kind |-> "report",
               event_direction |-> IF LowerEvent(target_event) = "positive"
                                   THEN "increases" ELSE "decreases",
               top_factors |-> SeqHead(sorted, TopFactors),
               display_shap |-> SeqHead(sorted, DetailRows)]

(***************************************************************************)
(* SpecExplain: create_shap_summary on the matrix of a prepared batch,     *)
(* then the direction filter                                               *)
(***************************************************************************)
\* rows of the SHAP matrix, one value per feature, in log-odds
ShapRows ==
    { <<1, 0, -1>>, <<0, 0, 0>>, <<-1, 1, 0>>, <<1, 1, 1>>, <<-1, -1, -1>> }

TargetEvents == {"positive", "Positive", "negative", "positive "}

ExplainRows ==
    { <<Str("Calgary"), Num(5)>>,
      <<Str("atlantis"), Str("abc")>>,
      <<NaN, Num(5)>> }

ExplainData ==
    {[kind |-> "frame", cols |-> <<"city", "tenure_months">>, rows |-> rows] :
        rows \in SeqUpTo(ExplainRows, MaxRows) \ {<<>>}}

InitExplain ==
    /\ \E data \in ExplainData, cats \in Vocabularies :
          shX = prepare_features(data, cats).v
    /\ shVals \in [Rows(shX) -> ShapRows]
    /\ shBase \in {BaseValueOf("churn_model.pkl"), BaseValueOf("custom_model.pkl")}
    /\ shOut = Pending
    /\ anEvent = Pending
    /\ anOut = Pending
    /\ pfData = Pending /\ pfCats = Pending /\ pfOut = Pending
    /\ pfAgain = Pending
    /\ blobs = Pending /\ scorers = Pending /\ thr = Pending
    /\ fetched = Pending /\ loaded = Pending /\ served = Pending
    /\ answers = Pending
    /\ tieOrder \in TieOrders
    /\ bvProduct = Pending /\ bvShap = Pending /\ bvName = Pending
    /\ bvFile = Pending /\ bvBase = Pending

CreateShapSummary ==
    /\ shOut.st = "pending"
    /\ shOut' = Returned(create_shap_summary(shVals, shX, shBase))
    /\ UNCHANGED <<shX, shVals, shBase, anEvent, anOut>>

Analyze ==
    /\ shOut.st = "returned"
    /\ anOut.st = "pending"
    /\ \E e \in TargetEvents :
          /\ anEvent' = [st |-> "given", e |-> e]
          /\ anOut' = [st |-> "returned", v |-> AnalyzeSummary(shOut.v, e)]
    /\ UNCHANGED <<shX, shVals, shBase, shOut>>

NextExplain ==
    \/ CreateShapSummary /\ UNCHANGED <<prepVars, pipeVars, tieOrder, baseVars>>
    \/ Analyze /\ UNCHANGED <<prepVars, pipeVars, tieOrder, baseVars>>

SpecExplain ==
    InitExplain /\ [][NextExplain]_vars

GroupsOf(summary, f) == {i \in DOMAIN summary.rows : summary.rows[i].feature = f}

\* C5 (as claimed): in the returned summary every row of the batch is in
\* exactly one group of every feature.
C5_EveryRowInOneGroup ==
    shOut.st = "returned" =>
        \A f \in Range(feature_cols) : \A r \in Rows(shX) :
            Cardinality({i \in GroupsOf(shOut.v, f) : r \in shOut.v.rows[i].rows}) = 1

\* C8: the positive view holds exactly the groups with SHAP_Value > 0, the
\* negative view exactly those with SHAP_Value < 0, and a group with
\* SHAP_Value = 0 is in neither.
C8_StrictSignFilter ==
    (anOut.st = "returned" /\ anOut.v.kind # "error") =>
        LET all  == Range(shOut.v.rows)
            view == IF anOut.v.kind = "report"
                    THEN Range(anOut.v.display_shap) ELSE {}
        IN  /\ LowerEvent(anEvent.e) = "positive"
                  => view = {g \in all : g.SHAP_Value > 0}
            /\ LowerEvent(anEvent.e) # "positive"
                  => view = {g \in all : g.SHAP_Value < 0}
            /\ \A g \in all : g.SHAP_Value = 0 => g \notin view

\* C8 witness: a report whose summary holds a zero-SHAP group as well as
\* groups of both signs
C8_Witness ==
    /\ anOut.st = "returned"
    /\ anOut.v.kind = "report"
    /\ \E g \in Range(shOut.v.rows) : g.SHAP_Value = 0
    /\ \E g \in Range(shOut.v.rows) : g.SHAP_Value > 0
    /\ \E g \in Range(shOut.v.rows) : g.SHAP_Value < 0

\* C9 (as claimed): whenever no group of the summary matches the requested
\* direction, the empty summary included, the outcome is the normal
\* 'no contributing factors' result and not an error.
C9_EmptyFilterIsNotAnError ==
    (anOut.st = "returned"
        /\ FilterDirection(shOut.v.rows, anEvent.e) = <<>>)
    => anOut.v.kind = "no_factors"

(***************************************************************************)
(* The process: object storage, scorers, and requests run by threads       *)
(***************************************************************************)
ModelNames == {"churn", "crosssell_hvac"}

\* line 281
ModelFile(model_name) == model_name \o "_model.pkl"

\* line 282
ShapFile(model_name) == model_name \o "_shap_explainer.pkl"

\* line 65
CategoriesFile == "train_categories.json"

\* lines 71, 91: the blob path f'{folder}/{object_name}'
Blob(folder, object_name) == <<folder, object_name>>

ModelBlobOf(model_name) == Blob("models", ModelFile(model_name))

ModelBlobs == {Blob("models", ModelFile(m)) : m \in ModelNames}

ShapBlobs == {Blob("shap_explainer", ShapFile(m)) : m \in ModelNames}

CategoriesBlob == Blob("categories", CategoriesFile)

AllBlobs == ModelBlobs \cup ShapBlobs \cup {CategoriesBlob}

\* a blob that downloads and deserializes
Ok(content) == [st |-> "ok", content |-> content]

\* a blob that is not there, or that does not deserialize
Missing == [st |-> "missing", content |-> None]

Corrupt == [st |-> "corrupt", content |-> None]

\* a blob whose download fails with a transient I/O error (the store is
\* unavailable, the connection drops)
Unavailable == [st |-> "unavailable", content |-> None]

\* a blob that downloads and deserializes, but takes longer than the caller
\* can wait
Slow(content) == [st |-> "slow", content |-> content]

\* blob.download_as_bytes() and pickle.loads succeed (lines 91-93)
Loads(blob) == blob.st \in {"ok", "slow"}

\* what pickle.loads gives for a model blob and for an explainer blob: each
\* artifact is the one trained for its model name; a booster carries the
\* feature names of its training matrix
Booster(model_name) ==
    [t |-> "booster", m |-> model_name, feature_names |-> feature_cols]

\* a booster trained with the feature lists of the training configuration
\* in another order than lines 31-47
RetrainedBooster(model_name) ==
    [t |-> "booster", m |-> model_name,
     feature_names |-> num_features \o cat_features]

Explainer(model_name) == [t |-> "explainer", m |-> model_name, slow |-> FALSE]

\* an explainer whose shap_values takes longer than the caller can wait
SlowExplainer(model_name) == [t |-> "explainer", m |-> model_name, slow |-> TRUE]

\* storage with every artifact in place
HealthyStorage(doc) ==
    [b \in AllBlobs |->
        IF b = CategoriesBlob THEN Ok(doc)
        ELSE IF b \in ModelBlobs
        THEN Ok(Booster(CHOOSE m \in ModelNames : b = Blob("models", ModelFile(m))))
        ELSE Ok(Explainer(CHOOSE m \in ModelNames :
                              b = Blob("shap_explainer", ShapFile(m))))]

\* the artifacts whose degraded states are explored: those of one model
\* and the shared vocabulary document
DegradedModel == "churn"

DegradedBlobs ==
    {ModelBlobOf(DegradedModel), Blob("shap_explainer", ShapFile(DegradedModel)),
     CategoriesBlob}

\* the vocabulary documents the bucket is explored with: the full one and
\* one that lacks "unknown"
BucketDocs ==
    { FullVocabulary,
      Dict("city" :> <<"calgary", "edmonton">>
           @@ "customer_segment" :> <<"family">>) }

\* the ways blob b fails to load.  load_object_from_gcs and
\* load_categories_from_gcs treat every failure alike, so each way is
\* explored on the model blob and two of them on the other artifacts.
FailuresOf(b) ==
    IF b = ModelBlobOf(DegradedModel) THEN {Missing, Corrupt, Unavailable}
    ELSE IF b = CategoriesBlob THEN {Missing, Corrupt}
    ELSE {Missing, Unavailable}

\* storage states: every artifact in place, or one of them degraded.  The
\* explainer blob may also hold an explainer whose shap_values raises or
\* is slow, the model blob a booster trained on another feature order.
StorageStates ==
    LET base == HealthyStorage(FullVocabulary)
        m    == DegradedModel
    IN  {HealthyStorage(d) : d \in BucketDocs}
        \cup UNION {{[base EXCEPT ![b] = x] : x \in FailuresOf(b)} :
                        b \in DegradedBlobs}
        \cup {[base EXCEPT ![Blob("shap_explainer", ShapFile(m))] = x] :
                  x \in {Ok(Str("failing explainer")), Ok(SlowExplainer(m))}}
        \cup {[base EXCEPT ![ModelBlobOf(m)] = x] :
                  x \in {Ok(RetrainedBooster(m)), Slow(Booster(m))}}

\* lines 49-52: the caches of a new scorer
EmptyDict == [x \in {} |-> None]

NewScorer ==
    [_models |-> EmptyDict, _categories |-> None, _shap_explainers |-> EmptyDict]

SharedScorer == 0

ScorerIds == 0..MaxRequests

IdleThread ==
    [pc |-> "idle", entry |-> "", scorer |-> 0, model_name |-> "",
     shap_enabled |-> FALSE, features |-> Pending, target_event |-> "",
     model |-> None, explainer |-> None, X |-> Pending, failed |-> {},
     attempts |-> [b \in AllBlobs |-> 0], overran |-> {},
     result |-> Pending, outcome |-> Pending]

\* the inputs requests carry
EmptyList == [kind |-> "list", cols |-> <<>>, rows |-> <<>>]

OneRecord ==
    [kind |-> "dict", cols |-> <<"City", "tenure_months">>,
     rows |-> <<<<Str("atlantis"), Num(5)>>>>]

TwoRecords(kind) ==
    [kind |-> kind, cols |-> <<"city", "Tenure_Months">>,
     rows |-> <<<<Str("Calgary"), Str("abc")>>, <<NaN, Num(5)>>>>]

NoRows == [kind |-> "frame", cols |-> <<"city", "Tenure_Months">>, rows |-> <<>>]

\* a customer with no usable value in any feature
AllDefaults ==
    [kind |-> "frame", cols |-> <<"city", "Tenure_Months">>,
     rows |-> <<<<NaN, Str("abc")>>>>]

\* the storage states the interleaved specification starts from
SomeStorageStates ==
    { HealthyStorage(FullVocabulary),
      [HealthyStorage(FullVocabulary) EXCEPT
          ![Blob("shap_explainer", "churn_shap_explainer.pkl")] = Missing] }

NoLoads == [s \in ScorerIds |-> [b \in AllBlobs |-> 0]]

\* the process starts with the long-lived scorer new and MaxThreads threads
Init ==
    /\ blobs \in SomeStorageStates
    /\ scorers = [s \in ScorerIds |-> NewScorer]
    /\ thr = [t \in 1..MaxThreads |-> IdleThread]
    /\ fetched = NoLoads
    /\ loaded = NoLoads
    /\ served = 0
    /\ answers = {}
    /\ pfData = Pending /\ pfCats = Pending /\ pfOut = Pending
    /\ pfAgain = Pending
    /\ shX = Pending /\ shVals = Pending /\ shBase = Pending
    /\ shOut = Pending /\ anEvent = Pending /\ anOut = Pending
    /\ tieOrder \in TieOrders
    /\ bvProduct = Pending /\ bvShap = Pending /\ bvName = Pending
    /\ bvFile = Pending /\ bvBase = Pending

\* the same process with a single thread, over every storage state
InitSeq ==
    /\ blobs \in StorageStates
    /\ scorers = [s \in ScorerIds |-> NewScorer]
    /\ thr = [t \in {1} |-> IdleThread]
    /\ fetched = NoLoads
    /\ loaded = NoLoads
    /\ served = 0
    /\ answers = {}
    /\ pfData = Pending /\ pfCats = Pending /\ pfOut = Pending
    /\ pfAgain = Pending
    /\ shX = Pending /\ shVals = Pending /\ shBase = Pending
    /\ shOut = Pending /\ anEvent = Pending /\ anOut = Pending
    /\ tieOrder \in TieOrders
    /\ bvProduct = Pending /\ bvShap = Pending /\ bvName = Pending
    /\ bvFile = Pending /\ bvBase = Pending

\* a request enters score_model (line 279) on scorer s
Enter(t, entry, s, model_name, features, shap_enabled, target_event) ==
    /\ thr[t].pc = "idle"
    /\ served < MaxRequests
    /\ served' = served + 1
    /\ thr' = [thr EXCEPT ![t] =
                  [IdleThread EXCEPT !.pc = "load_model", !.entry = entry,
                      !.scorer = s, !.model_name = model_name,
                      !.features = features, !.shap_enabled = shap_enabled,
                      !.target_event = target_event]]
    /\ UNCHANGED <<blobs, scorers, fetched, loaded, answers>>

\* score_model called on the long-lived scorer (lines 457, 515)
CallScoreModel ==
    \E t \in DOMAIN thr, m \in ModelNames, sh \in BOOLEAN,
       f \in {OneRecord, TwoRecords("frame")} :
        Enter(t, "score_model", SharedScorer, m, f, sh, "")

\* lines 336-342: a new scorer per call
CallLoadAndScore ==
    \E t \in DOMAIN thr, m \in ModelNames, sh \in BOOLEAN :
        Enter(t, "load_and_score", served + 1, m, OneRecord, sh, "")

\* lines 344-350: a new scorer per call
CallBatchScore ==
    \E t \in DOMAIN thr, m \in ModelNames, sh \in BOOLEAN,
       f \in {EmptyList, TwoRecords("list")} :
        Enter(t, "batch_score", served + 1, m, f, sh, "")

\* lines 365-393: a new scorer per call; no customers, no scoring
CallAnalyze ==
    \E t \in DOMAIN thr, m \in ModelNames, e \in {"positive", "negative"},
       f \in {NoRows, AllDefaults, TwoRecords("frame")} :
        IF Len(f.rows) = 0
        THEN /\ thr[t].pc = "idle"
             /\ served < MaxRequests
             /\ served' = served + 1
             /\ thr' = [thr EXCEPT ![t] =
                           [IdleThread EXCEPT !.pc = "done",
                               !.entry = "analyze_model_with_shap_tool",
                               !.scorer = served + 1, !.model_name = m,
                               !.features = f, !.shap_enabled = TRUE,
                               !.target_event = e,
                               !.outcome = [kind |-> "no_customers",
                                            text |-> "No customers found"]]]
             /\ UNCHANGED <<blobs, scorers, fetched, loaded, answers>>
        ELSE Enter(t, "analyze_model_with_shap_tool", served + 1, m, f, TRUE, e)

(***************************************************************************)
(* load_object_from_gcs (lines 82-106), in two steps: the cache lookup,    *)
(* then download + pickle.loads + the cache store                          *)
(***************************************************************************)
\* lines 85-88
CacheOf(scorer, folder) ==
    IF folder = "models" THEN scorer._models
    ELSE IF folder = "shap_explainer" THEN scorer._shap_explainers
    ELSE EmptyDict

\* the cache filled with the downloaded bytes instead of the loaded object
CacheStoreBytes(scorer, folder, object_name, loaded_object) ==
    IF folder = "models"
    THEN [scorer EXCEPT !._models = (object_name :> Str("object_bytes")) @@ @]
    ELSE IF folder = "shap_explainer"
    THEN [scorer EXCEPT !._shap_explainers = (object_name :> Str("object_bytes")) @@ @]
    ELSE scorer

\* lines 96-99
CacheStore(scorer, folder, object_name, loaded_object) ==
    IF folder = "models"
    THEN [scorer EXCEPT !._models = (object_name :> loaded_object) @@ @]
    ELSE IF folder = "shap_explainer"
    THEN [scorer EXCEPT !._shap_explainers = (object_name :> loaded_object) @@ @]
    ELSE scorer

\* a failed load remembered: None stored under the name
CacheNoneOnError(scorer, folder, object_name) ==
    CacheStore(scorer, folder, object_name, None)

\* lines 104-106: the exception is caught and None returned; the caches are
\* as they were
OnLoadError(scorer, folder, object_name) == scorer

Bump(counter, s, b) == [counter EXCEPT ![s][b] = @ + 1]

\* lines 299-304 and 333: what score_model returns
ErrorResult(msg) ==
    [fields |-> {"error"}, error |-> msg, predictions |-> <<>>,
     average_prediction |-> 0, num_samples |-> 0, base_value |-> 0,
     shap_summary_data |-> Pending]

\* line 285 and lines 85-86: the model cache is consulted
LoadModelLookup ==
    \E t \in DOMAIN thr :
        LET r == thr[t]
            f == ModelFile(r.model_name)
            cache == CacheOf(scorers[r.scorer], "models")
        IN  /\ r.pc = "load_model"
            /\ thr' = [thr EXCEPT ![t] =
                  IF f \in DOMAIN cache
                  THEN [r EXCEPT !.pc = "prepare", !.model = cache[f]]
                  ELSE [r EXCEPT !.pc = "fetch_model"]]
            /\ UNCHANGED <<blobs, scorers, fetched, loaded, served, answers>>

\* lines 90-106, then 286-287: the model is fetched; None ends the request
LoadModelFetch ==
    \E t \in DOMAIN thr :
        LET r == thr[t]
            f == ModelFile(r.model_name)
            b == Blob("models", f)
        IN  /\ r.pc = "fetch_model"
            /\ fetched' = Bump(fetched, r.scorer, b)
            /\ IF Loads(blobs[b])
               THEN /\ loaded' = Bump(loaded, r.scorer, b)
                    /\ scorers' = [scorers EXCEPT ![r.scorer] =
                            CacheStore(@, "models", f, blobs[b].content)]
                    /\ thr' = [thr EXCEPT ![t] =
                            [r EXCEPT !.pc = "prepare", !.attempts[b] = @ + 1,
                                !.overran = IF blobs[b].st = "slow"
                                            THEN @ \cup {"fetch"} ELSE @,
                                !.model = blobs[b].content]]
               ELSE /\ thr' = [thr EXCEPT ![t] =
                            [r EXCEPT !.pc = "returned",
                                !.failed = @ \cup {"model"},
                                !.attempts[b] = @ + 1,
                                !.result = ErrorResult("Failed to load model")]]
                    /\ scorers' = [scorers EXCEPT ![r.scorer] =
                            OnLoadError(@, "models", f)]
                    /\ UNCHANGED loaded
            /\ UNCHANGED <<blobs, served, answers>>

(***************************************************************************)
(* score_model, lines 289-308                                              *)
(***************************************************************************)
\* the attribution the explainer artifact of a model gives one cell (the
\* artifact is a fixed function of the row; which one is the artifact's
\* business)
ShapOfCell(model_name, c) ==
    LET v == CASE c.t = "nan" -> 0
               [] c.t = "str" -> IF c.s = "unknown" THEN -1 ELSE 1
               [] c.t = "num" -> IF c.n = 0 THEN -1 ELSE 1
    IN  IF model_name = "churn" THEN v ELSE -v

\* line 318: explainer.shap_values(dmatrix)
ShapValuesOf(model_name, X) ==
    [r \in Rows(X) |-> [k \in DOMAIN X.cols |-> ShapOfCell(model_name, X.rows[r][k])]]

\* line 296: model.predict(dmatrix), one probability per row
Predict(model_name, X) ==
    LET sv == ShapValuesOf(model_name, X) IN
    [r \in Rows(X) |->
        sigmoid(BaseValueOf(ModelFile(model_name))
                  + Unit * SumOver(sv[r], DOMAIN X.cols))]

\* line 296: predict raises when the object is no booster (AttributeError)
\* and when the matrix's columns are not the booster's feature names
\* (xgboost's ValueError 'feature_names mismatch')
PredictRaises(model, X) ==
    \/ model.t # "booster"
    \/ model.feature_names # X.cols

\* the convenience field added to every non-empty batch
BasicResultWithFirstPrediction(predictions, X) ==
    [fields |-> {"model_name", "predictions", "average_prediction", "num_samples"}
                  \cup (IF Len(predictions) >= 1 THEN {"prediction"} ELSE {}),
     error |-> "", predictions |-> predictions,
     average_prediction |-> IF Len(predictions) = 0 THEN 0
                            ELSE SumOver(predictions, DOMAIN predictions)
                                    \div Len(predictions),
     num_samples |-> Len(X.rows), base_value |-> 0,
     shap_summary_data |-> Pending]

\* lines 299-308
BasicResult(predictions, X) ==
    [fields |-> {"model_name", "predictions", "average_prediction", "num_samples"}
                  \cup (IF Len(predictions) = 1 THEN {"prediction"} ELSE {}),
     error |-> "", predictions |-> predictions,
     average_prediction |-> IF Len(predictions) = 0 THEN 0
                            ELSE SumOver(predictions, DOMAIN predictions)
                                    \div Len(predictions),
     num_samples |-> Len(X.rows), base_value |-> 0,
     shap_summary_data |-> Pending]

\* lines 290-308 (with load_categories_from_gcs, lines 65-80, called at
\* line 127): features are prepared and scored; an exception anywhere is
\* the 'Scoring failed' result of line 333
ScoreStep ==
    \E t \in DOMAIN thr :
        LET r == thr[t]
            sc == scorers[r.scorer]
            cachedCats == sc._categories.t # "none"
            fetchOk == Loads(blobs[CategoriesBlob])
            training_categories ==
                IF cachedCats THEN sc._categories
                ELSE IF fetchOk THEN blobs[CategoriesBlob].content
                ELSE None
            out == prepare_features(r.features, training_categories)
        IN  /\ r.pc = "prepare"
            /\ fetched' = IF cachedCats THEN fetched
                          ELSE Bump(fetched, r.scorer, CategoriesBlob)
            /\ loaded' = IF cachedCats \/ ~fetchOk THEN loaded
                         ELSE Bump(loaded, r.scorer, CategoriesBlob)
            /\ scorers' = [scorers EXCEPT ![r.scorer]._categories = training_categories]
            /\ thr' = [thr EXCEPT ![t] =
                  LET r1 == [r EXCEPT !.X = out,
                                !.attempts[CategoriesBlob] =
                                    IF cachedCats THEN @ ELSE @ + 1,
                                !.failed = IF training_categories.t = "none"
                                           THEN @ \cup {"categories"} ELSE @]
                  IN  IF out.st = "raised" \/ PredictRaises(r.model, out.v)
                      THEN [r1 EXCEPT !.pc = "returned",
                               !.result = ErrorResult("Scoring failed")]
                      ELSE [r1 EXCEPT
                               !.pc = IF r.shap_enabled THEN "load_explainer"
                                      ELSE "returned",
                               !.result = BasicResult(Predict(r.model.m, out.v), out.v)]]
            /\ UNCHANGED <<blobs, served, answers>>

(***************************************************************************)
(* score_model, lines 310-330: the SHAP summary                            *)
(***************************************************************************)
\* an explainer that did not load treated as the failure of the request
WithShapWarningAsError(result) == ErrorResult("Could not load SHAP explainer")

\* line 314
WithShapWarning(result) ==
    [result EXCEPT !.fields = @ \cup {"shap_warning"}]

\* the SHAP failure reported under 'error', next to the predictions
WithShapErrorUnderError(result) ==
    [result EXCEPT !.fields = @ \cup {"error"}]

\* line 328
WithShapError(result) ==
    [result EXCEPT !.fields = @ \cup {"shap_error"}]

\* lines 324-325
WithShapSummary(result, base_value, shap_summary_df) ==
    [result EXCEPT !.fields = @ \cup {"base_value", "shap_summary_data"},
                   !.base_value = base_value,
                   !.shap_summary_data = shap_summary_df]

\* line 312 and lines 87-88: the explainer cache is consulted
LoadExplainerLookup ==
    \E t \in DOMAIN thr :
        LET r == thr[t]
            f == ShapFile(r.model_name)
            cache == CacheOf(scorers[r.scorer], "shap_explainer")
        IN  /\ r.pc = "load_explainer"
            /\ thr' = [thr EXCEPT ![t] =
                  IF f \in DOMAIN cache
                  THEN [r EXCEPT !.pc = "explain", !.explainer = cache[f]]
                  ELSE [r EXCEPT !.pc = "fetch_explainer"]]
            /\ UNCHANGED <<blobs, scorers, fetched, loaded, served, answers>>

\* lines 90-106, then 313-314: the explainer is fetched; None is a warning
LoadExplainerFetch ==
    \E t \in DOMAIN thr :
        LET r == thr[t]
            f == ShapFile(r.model_name)
            b == Blob("shap_explainer", f)
        IN  /\ r.pc = "fetch_explainer"
            /\ fetched' = Bump(fetched, r.scorer, b)
            /\ IF Loads(blobs[b])
               THEN /\ loaded' = Bump(loaded, r.scorer, b)
                    /\ scorers' = [scorers EXCEPT ![r.scorer] =
                            CacheStore(@, "shap_explainer", f, blobs[b].content)]
                    /\ thr' = [thr EXCEPT ![t] =
                            [r EXCEPT !.pc = "explain", !.attempts[b] = @ + 1,
                                !.explainer = blobs[b].content]]
               ELSE /\ thr' = [thr EXCEPT ![t] =
                            [r EXCEPT !.pc = "returned",
                                !.failed = @ \cup {"explainer"},
                                !.attempts[b] = @ + 1,
                                !.result = WithShapWarning(@)]]
                    /\ scorers' = [scorers EXCEPT ![r.scorer] =
                            OnLoadError(@, "shap_explainer", f)]
                    /\ UNCHANGED loaded
            /\ UNCHANGED <<blobs, served, answers>>

\* lines 316-328: SHAP values and their summary; an exception is shap_error
ExplainStep ==
    \E t \in DOMAIN thr :
        LET r == thr[t]
            base_value == BaseValueOf(ModelFile(r.model_name))
            shap_values == ShapValuesOf(r.explainer.m, r.X.v)
        IN  /\ r.pc = "explain"
            /\ thr' = [thr EXCEPT ![t] =
                  IF r.explainer = Str("failing explainer") \/ r.explainer.t # "explainer"
                  THEN [r EXCEPT !.pc = "returned",
                           !.failed = @ \cup {"shap_values"},
                           !.result = WithShapError(@)]
                  ELSE [r EXCEPT !.pc = "returned",
                           !.overran = IF r.explainer.slow
                                       THEN @ \cup {"explain"} ELSE @,
                           !.result = WithShapSummary(@, base_value,
                               create_shap_summary(shap_values, r.X.v, base_value))]]
            /\ UNCHANGED <<blobs, scorers, fetched, loaded, served, answers>>

\* lines 398-399 and 423-428: the report text is built with the average
\* prediction and the number of customers; the other return values (lines
\* 396, 403, 414, 450) are fixed sentences
WithBatchStatistics(outcome, results) ==
    IF outcome.kind = "report"
    THEN outcome @@ [avg_prediction |-> results.average_prediction,
                     num_customers |-> results.num_samples]
    ELSE outcome

\* lines 395-447: what analyze_model_with_shap_tool makes of the result
AnalyzeResult(results, target_event) ==
    IF "error" \in results.fields
    THEN [kind |-> "error", text |-> "Model scoring failed"]
    ELSE IF "shap_summary_data" \notin results.fields
    THEN [kind |-> "unavailable", text |-> "SHAP analysis not available"]
    ELSE WithBatchStatistics(
             AnalyzeSummary(results.shap_summary_data, target_event), results)

\* what a score_model call was asked: the scorer and its three arguments
RequestOf(r) ==
    [scorer |-> r.scorer, model_name |-> r.model_name,
     features |-> r.features, shap_enabled |-> r.shap_enabled]

\* score_model returns to its caller (lines 330, 342, 350, 393)
ReturnToCaller ==
    \E t \in DOMAIN thr :
        LET r == thr[t] IN
        /\ r.pc = "returned"
        /\ thr' = [thr EXCEPT ![t] =
              [r EXCEPT !.pc = "done",
                  !.outcome = IF r.entry = "analyze_model_with_shap_tool"
                              THEN AnalyzeResult(r.result, r.target_event)
                              ELSE [kind |-> "result", text |-> ""]]]
        \* kept for the long-lived scorer: a scorer built for one call
        \* (lines 341, 349, 369) is never asked again
        /\ answers' = IF r.scorer = SharedScorer
                       THEN answers \cup {[request |-> RequestOf(r),
                                           result |-> r.result]}
                       ELSE answers
        /\ UNCHANGED <<blobs, scorers, fetched, loaded, served>>

\* the thread is free for its next request
NextRequest ==
    \E t \in DOMAIN thr :
        /\ thr[t].pc = "done"
        /\ thr' = [thr EXCEPT ![t] = IdleThread]
        /\ UNCHANGED <<blobs, scorers, fetched, loaded, served, answers>>

NextPipe ==
    \/ CallScoreModel /\ UNCHANGED <<prepVars, explVars, tieOrder, baseVars>>
    \/ CallLoadAndScore /\ UNCHANGED <<prepVars, explVars, tieOrder, baseVars>>
    \/ CallBatchScore /\ UNCHANGED <<prepVars, explVars, tieOrder, baseVars>>
    \/ CallAnalyze /\ UNCHANGED <<prepVars, explVars, tieOrder, baseVars>>
    \/ LoadModelLookup /\ UNCHANGED <<prepVars, explVars, tieOrder, baseVars>>
    \/ LoadModelFetch /\ UNCHANGED <<prepVars, explVars, tieOrder, baseVars>>
    \/ ScoreStep /\ UNCHANGED <<prepVars, explVars, tieOrder, baseVars>>
    \/ LoadExplainerLookup /\ UNCHANGED <<prepVars, explVars, tieOrder, baseVars>>
    \/ LoadExplainerFetch /\ UNCHANGED <<prepVars, explVars, tieOrder, baseVars>>
    \/ ExplainStep /\ UNCHANGED <<prepVars, explVars, tieOrder, baseVars>>
    \/ ReturnToCaller /\ UNCHANGED <<prepVars, explVars, tieOrder, baseVars>>
    \/ NextRequest /\ UNCHANGED <<prepVars, explVars, tieOrder, baseVars>>

\* requests on MaxThreads threads, interleaved
Spec == Init /\ [][NextPipe]_vars

\* requests one at a time
SpecSeq == InitSeq /\ [][NextPipe]_vars

\* C1 (as claimed): on one scorer the blob of a model name is downloaded
\* and deserialized at most once, however the calls for it interleave.
C1_SingleFlight ==
    \A s \in ScorerIds : \A m \in ModelNames : loaded[s][ModelBlobOf(m)] <= 1

\* C2 (as claimed): in one process the blob of a model name is downloaded
\* and deserialized at most once, whichever entry points the requests use.
C2_PopulateOnce ==
    \A m \in ModelNames :
        SumOver([s \in ScorerIds |-> loaded[s][ModelBlobOf(m)]], ScorerIds) <= 1

\* C6: a score_model call with SHAP requested whose explainer could not be
\* loaded, or whose shap_values raised, returns predictions,
\* average_prediction and num_samples, with shap_warning or shap_error
\* added and without 'error'.
C6_ShapFailureIsNotFatal ==
    \A t \in DOMAIN thr :
        (/\ thr[t].pc \in {"returned", "done"}
         /\ thr[t].shap_enabled
         /\ thr[t].failed \cap {"explainer", "shap_values"} # {})
        => /\ {"predictions", "average_prediction", "num_samples"}
                 \subseteq thr[t].result.fields
           /\ thr[t].result.fields \cap {"shap_warning", "shap_error"} # {}
           /\ "error" \notin thr[t].result.fields
           /\ Len(thr[t].result.predictions) = Len(thr[t].features.rows)

\* C6 witness: a batch scored although its explainer did not load
C6_Witness ==
    \E t \in DOMAIN thr :
        /\ thr[t].pc = "done"
        /\ thr[t].entry = "score_model"
        /\ "explainer" \in thr[t].failed
        /\ "shap_warning" \in thr[t].result.fields
        /\ Len(thr[t].result.predictions) > 1

\* C7 (as claimed): a request whose model blob or vocabulary document was
\* missing or did not deserialize ends with an error outcome and no
\* predictions.
C7_MissingArtifactIsFatal ==
    \A t \in DOMAIN thr :
        (/\ thr[t].pc \in {"returned", "done"}
         /\ thr[t].failed \cap {"model", "categories"} # {})
        => /\ "error" \in thr[t].result.fields
           /\ "predictions" \notin thr[t].result.fields

\* C10 (as claimed): for an empty record list prepare_features returns a
\* zero-row matrix over the feature order and score_model returns an empty
\* predictions list with num_samples 0 and no 'error'.
C10_EmptyListIsScored ==
    \A t \in DOMAIN thr :
        (/\ thr[t].pc \in {"returned", "done"}
         /\ thr[t].features = EmptyList
         /\ "model" \notin thr[t].failed)
        => /\ thr[t].X.st = "returned"
           /\ thr[t].X.v.cols = feature_cols
           /\ thr[t].X.v.rows = <<>>
           /\ "error" \notin thr[t].result.fields
           /\ "predictions" \in thr[t].result.fields
           /\ thr[t].result.predictions = <<>>
           /\ thr[t].result.num_samples = 0

(***************************************************************************)
(* Defaults of prepare_features                                            *)
(***************************************************************************)
\* the input gives no usable number for feature f in row r
NoUsableNumber(data, r, f) ==
    ~InputHas(data, f) \/ ToNumeric(InputCell(data, r, f)).t = "nan"

\* the input gives no usable category for feature f in row r: the column is
\* absent, or the value is null, or empty once trimmed
NoUsableCategory(data, r, f) ==
    \/ ~InputHas(data, f)
    \/ InputCell(data, r, f).t \in {"nan", "none"}
    \/ /\ InputCell(data, r, f).t = "str"
       /\ StrStrip(InputCell(data, r, f).s) = ""

\* C11 (as claimed): in the returned matrix a numeric feature with no
\* usable input value is 0 and a categorical feature with no usable input
\* value is "unknown".
C11_DefaultsFilled ==
    pfOut.st = "returned" =>
        \A r \in DOMAIN pfData.rows :
            /\ \A f \in Range(num_features) :
                   NoUsableNumber(pfData, r, f) => OutCell(pfOut, r, f) = Num(0)
            /\ \A f \in Range(cat_features) :
                   NoUsableCategory(pfData, r, f)
                       => OutCell(pfOut, r, f) = Str("unknown")

(***************************************************************************)
(* What a report carries                                                   *)
(***************************************************************************)
\* the batch quantities present in what analyze_model_with_shap_tool returns
ReportQuantities(outcome) ==
    (IF "base_probability" \in DOMAIN outcome THEN {"base_probability"} ELSE {})
    \cup (IF "avg_prediction" \in DOMAIN outcome
          THEN {"average_probability"} ELSE {})
    \cup (IF "num_customers" \in DOMAIN outcome THEN {"sample_count"} ELSE {})

\* C12 (as claimed): every report returned for a scored batch, the report
\* of an empty filtered set included, carries the base probability, the
\* average probability of the batch and the sample count.
C12_ReportCarriesStatistics ==
    \A t \in DOMAIN thr :
        (/\ thr[t].pc = "done"
         /\ thr[t].entry = "analyze_model_with_shap_tool"
         /\ thr[t].outcome.kind \in {"report", "no_factors"})
        => ReportQuantities(thr[t].outcome)
              = {"base_probability", "average_probability", "sample_count"}

ZeroView(rs) == SelectSeq(rs, LAMBDA g : g.SHAP_Value = 0)

\* C14 (as claimed): for an explained batch of at least one row the
\* positive view, the negative view and the zero-SHAP groups are pairwise
\* disjoint and between them hold a group of every feature of the feature
\* order.
C14_DirectionsCoverFeatures ==
    (shOut.st = "returned" /\ Rows(shX) # {}) =>
        LET pos  == Range(PositiveView(shOut.v.rows))
            neg  == Range(NegativeView(shOut.v.rows))
            zero == Range(ZeroView(shOut.v.rows))
        IN  /\ pos \cap neg = {}
            /\ pos \cap zero = {}
            /\ neg \cap zero = {}
            /\ \A f \in Range(feature_cols) :
                   \E g \in pos \cup neg \cup zero : g.feature = f

(***************************************************************************)
(* Normalising twice                                                       *)
(***************************************************************************)
\* C15: prepare_features applied to a matrix it returned, with the same
\* vocabulary, returns a matrix with the same categorical cells; a cell
\* that was "unknown" is "unknown" again.
C15_NormalizationIdempotent ==
    (pfOut.st = "returned" /\ pfAgain.st # "pending") =>
        /\ pfAgain.st = "returned"
        /\ \A r \in DOMAIN pfOut.v.rows : \A f \in Range(cat_features) :
               OutCell(pfAgain, r, f) = OutCell(pfOut, r, f)
        /\ pfAgain.v.cats = pfOut.v.cats

\* C15 witness: a matrix normalised twice in which an out-of-vocabulary
\* city became "unknown" and a blank customer_segment took the default
C15_Witness ==
    /\ pfAgain.st = "returned"
    /\ \E r \in DOMAIN pfData.rows :
          /\ InputHas(pfData, "city")
          /\ InputCell(pfData, r, "city") = Str("atlantis")
          /\ HasVocabulary(pfCats, "city")
          /\ OutCell(pfOut, r, "city") = Str("unknown")
          /\ OutCell(pfAgain, r, "city") = Str("unknown")
    /\ \E cols \in Layouts, r \in DOMAIN pfData.rows :
          /\ pfData.cols = cols
          /\ \E f \in Range(cat_features) :
                /\ InputHas(pfData, f)
                /\ InputCell(pfData, r, f) = Str(" ")
                /\ OutCell(pfAgain, r, f) = Str("unknown")

C17_SchemaMismatchIsReported ==
    \A t \in DOMAIN thr :
        (/\ thr[t].pc \in {"returned", "done"}
         /\ thr[t].X.st = "returned"
         /\ thr[t].model.t = "booster"
         /\ thr[t].model.feature_names # thr[t].X.v.cols)
        => /\ thr[t].result.error = "FeatureSchemaMismatch"
           /\ {"expected", "actual"} \subseteq thr[t].result.fields

C19_TimeoutsBoundTheCall ==
    \A t \in DOMAIN thr :
        (thr[t].pc \in {"returned", "done"} /\ thr[t].overran # {}) =>
            /\ "fetch" \in thr[t].overran
                  => thr[t].result.error = "ArtifactLoadTimeout"
            /\ thr[t].overran = {"explain"}
                  => thr[t].result.error = "ExplainTimeout"

(***************************************************************************)
(* Reporting the defaulted fields                                          *)
(***************************************************************************)
\* the numeric cells of the input that line 157 replaces by 0: the column
\* is there and its value is missing or does not parse
DefaultedNumbers(data) ==
    {<<r, j>> \in (DOMAIN data.rows) \X (DOMAIN data.cols) :
        /\ CleanColumn(data.cols[j]) \in Range(num_features)
        /\ ToNumeric(data.rows[r][j]).t = "nan"}

\* the same input with a genuine 0 in place of one cell
WithZeroAt(data, r, j) == [data EXCEPT !.rows[r][j] = Num(0)]

\* C20 (as claimed): what prepare_features returns identifies every numeric
\* field it defaulted, so it is not what it returns for the same input
\* with a genuine 0 in that field.
C20_DefaultedFieldsAreReported ==
    pfOut.st = "returned" =>
        \A c \in DefaultedNumbers(pfData) :
            prepare_features(WithZeroAt(pfData, c[1], c[2]), pfCats) # pfOut

(***************************************************************************)
(* Duplicate input columns                                                 *)
(***************************************************************************)
\* the input columns whose cleaned name is f
ColumnsNamed(data, f) == {j \in DOMAIN data.cols : CleanColumn(data.cols[j]) = f}

\* the last of them
LastColumnNamed(data, f) ==
    CHOOSE j \in ColumnsNamed(data, f) : \A k \in ColumnsNamed(data, f) : k <= j

\* C21 (as claimed): when two input columns clean to the name of the same
\* feature, prepare_features returns a matrix and the feature holds the
\* normalized values of the last such column.
C21_DuplicateColumnsLastWins ==
    pfOut.st # "pending" =>
        \A f \in Range(feature_cols) :
            Cardinality(ColumnsNamed(pfData, f)) > 1 =>
                /\ pfOut.st = "returned"
                /\ \A r \in DOMAIN pfData.rows :
                      LET c == pfData.rows[r][LastColumnNamed(pfData, f)] IN
                      OutCell(pfOut, r, f) =
                          IF f \in Range(cat_features)
                          THEN CatCellPresent(c, pfCats, f)
                          ELSE NumCellPresent(c)

(***************************************************************************)
(* One prediction per record                                               *)
(***************************************************************************)
\* the matrix holding row i of X alone
RowAlone(X, i) == [X EXCEPT !.rows = <<X.rows[i]>>]

\* C22: a score_model result that carries predictions carries one per input
\* record, in input order (the i-th prediction is the score of the i-th
\* record), num_samples is that number, and 'prediction' is present exactly
\* when there is one record.
C22_OnePredictionPerRecord ==
    \A t \in DOMAIN thr :
        (/\ thr[t].pc \in {"returned", "done"}
         /\ thr[t].result # Pending
         /\ "predictions" \in thr[t].result.fields)
        => LET res == thr[t].result
               n == Len(thr[t].features.rows)
           IN  /\ Len(res.predictions) = n
               /\ res.num_samples = n
               /\ \A i \in 1..n :
                     res.predictions[i] =
                         Predict(thr[t].model_name, RowAlone(thr[t].X.v, i))[1]
               /\ ("prediction" \in res.fields) <=> (n = 1)

\* C22 witness: a two-record batch returned with two different predictions
\* and no 'prediction' field
C22_Witness ==
    \E t \in DOMAIN thr :
        /\ thr[t].pc = "done"
        /\ Len(thr[t].features.rows) = 2
        /\ thr[t].result # Pending
        /\ "predictions" \in thr[t].result.fields
        /\ thr[t].result.predictions[1] # thr[t].result.predictions[2]
        /\ "prediction" \notin thr[t].result.fields

(***************************************************************************)
(* Importance ranks                                                        *)
(***************************************************************************)
\* C23: the importance ranks of the features are a permutation of 1..F, a
\* feature with a strictly larger mean absolute SHAP value has a strictly
\* smaller rank, and every group of a feature carries that feature's rank.
C23_RanksArePermutation ==
    shOut.st = "returned" =>
        \A imp \in {FeatureImportances(shX, shVals)} :
        \A rank \in {[k \in DOMAIN feature_cols |-> RankAmong(imp, k)]} :
            /\ Range(rank) = 1..Len(feature_cols)
            /\ \A j \in DOMAIN rank : \A k \in DOMAIN rank :
                  imp[j] > imp[k] => rank[j] < rank[k]
            /\ \A i \in DOMAIN shOut.v.rows :
                  shOut.v.rows[i].Feature_Importance_Rank
                      = rank[IndexOf(feature_cols, shOut.v.rows[i].feature)]

\* C23 witness: a summary over two features of equal importance and one of
\* larger importance, with a feature that has two groups
C23_Witness ==
    /\ shOut.st = "returned"
    /\ \E f \in Range(feature_cols) : \E g \in Range(feature_cols) \ {f} :
          /\ FeatureImportance(shX, shVals, f) = FeatureImportance(shX, shVals, g)
          /\ \E h \in Range(feature_cols) :
                FeatureImportance(shX, shVals, h) > FeatureImportance(shX, shVals, f)
    /\ \E f \in Range(feature_cols) : Cardinality(GroupsOf(shOut.v, f)) = 2

\* C24 (as claimed): of two features with equal mean absolute SHAP value
\* the one that comes first in the feature order gets the smaller rank.
C24_TiesInFeatureOrder ==
    shOut.st = "returned" =>
        \A j \in DOMAIN feature_cols : \A k \in DOMAIN feature_cols :
            (/\ j < k
             /\ FeatureImportance(shX, shVals, feature_cols[j])
                   = FeatureImportance(shX, shVals, feature_cols[k]))
            => ImportanceRank(shX, shVals, feature_cols[j])
                  < ImportanceRank(shX, shVals, feature_cols[k])

(***************************************************************************)
(* Order of the report                                                     *)
(***************************************************************************)
\* C25 (as claimed): the groups of a report are ordered by importance rank
\* ascending and, within one importance rank, by probability change
\* descending.
C25_ReportOrderedByRank ==
    (anOut.st = "returned" /\ anOut.v.kind = "report") =>
        LET groups == anOut.v.display_shap IN
        \A i \in DOMAIN groups : \A j \in DOMAIN groups :
            i < j =>
                \/ groups[i].Feature_Importance_Rank < groups[j].Feature_Importance_Rank
                \/ /\ groups[i].Feature_Importance_Rank = groups[j].Feature_Importance_Rank
                   /\ groups[i].probability_contribution
                         >= groups[j].probability_contribution

(***************************************************************************)
(* Groups of a numeric feature                                             *)
(***************************************************************************)
QuantileBins == 10

\* the values of feature f observed in the batch
ObservedValues(X, f) == {X.rows[r][Col(X, f)] : r \in Rows(X)}

\* C26 (as claimed): a numeric feature yields at most 10 groups, and when
\* its column holds a single distinct value (a single-row batch, a constant
\* column) it yields one group, of all the rows.
C26_ConstantColumnIsOneGroup ==
    shOut.st = "returned" =>
        \A f \in Range(num_features) :
            /\ Cardinality(GroupsOf(shOut.v, f)) <= QuantileBins
            /\ Cardinality(ObservedValues(shX, f)) = 1
                  => /\ Cardinality(GroupsOf(shOut.v, f)) = 1
                     /\ \A i \in GroupsOf(shOut.v, f) :
                           shOut.v.rows[i].rows = Rows(shX)

(***************************************************************************)
(* Target events other than "positive"                                     *)
(***************************************************************************)
\* the target events whose lower-cased text is "positive"
PositiveEvents == {"positive", "Positive"}

\* C29: for every target_event whose lower-cased text is not exactly
\* "positive" the analysis is the negative one: the report holds exactly the
\* groups with SHAP_Value < 0 and says they decrease the probability, and
\* there is no report exactly when there is no such group.
C29_OtherEventsAreNegative ==
    (/\ anOut.st = "returned"
     /\ anOut.v.kind # "error"
     /\ anEvent.e \notin PositiveEvents)
    => LET negative == {g \in Range(shOut.v.rows) : g.SHAP_Value < 0} IN
       IF negative = {}
       THEN anOut.v.kind = "no_factors"
       ELSE /\ anOut.v.kind = "report"
            /\ anOut.v.event_direction = "decreases"
            /\ Range(anOut.v.display_shap) = negative
            /\ Range(anOut.v.top_factors) = negative

\* C29 witness: "positive " with a trailing space, on a summary that has
\* groups of both signs, answered with the report of the negative ones
C29_Witness ==
    /\ anOut.st = "returned"
    /\ anEvent.e = "positive "
    /\ anOut.v.kind = "report"
    /\ anOut.v.event_direction = "decreases"
    /\ \E g \in Range(shOut.v.rows) : g.SHAP_Value > 0
    /\ \E g \in Range(anOut.v.display_shap) : g.SHAP_Value < 0

(***************************************************************************)
(* What the caches of a scorer hold                                        *)
(***************************************************************************)
ExplainerBlobOf(m) == Blob("shap_explainer", ShapFile(m))

\* C27: on every scorer the model cache and the explainer cache hold an
\* entry for a name exactly when a fetch of that object from the matching
\* folder has succeeded, and the entry is the object fetched; a failed
\* fetch leaves no entry, so the next call for the name fetches again.
C27_CachesHoldSuccessfulLoads ==
    \A s \in ScorerIds :
        /\ DOMAIN scorers[s]._models \subseteq {ModelFile(m) : m \in ModelNames}
        /\ DOMAIN scorers[s]._shap_explainers \subseteq {ShapFile(m) : m \in ModelNames}
        /\ \A m \in ModelNames :
              /\ ModelFile(m) \in DOMAIN scorers[s]._models
                    <=> loaded[s][ModelBlobOf(m)] > 0
              /\ ModelFile(m) \in DOMAIN scorers[s]._models
                    => scorers[s]._models[ModelFile(m)] = blobs[ModelBlobOf(m)].content
              /\ ShapFile(m) \in DOMAIN scorers[s]._shap_explainers
                    <=> loaded[s][ExplainerBlobOf(m)] > 0
              /\ ShapFile(m) \in DOMAIN scorers[s]._shap_explainers
                    => scorers[s]._shap_explainers[ShapFile(m)]
                          = blobs[ExplainerBlobOf(m)].content
        /\ \A t \in DOMAIN thr :
              (/\ thr[t].scorer = s
               /\ thr[t].pc \in {"returned", "done"}
               /\ thr[t].result # Pending
               /\ ModelFile(thr[t].model_name) \notin DOMAIN scorers[s]._models)
              => /\ thr[t].attempts[ModelBlobOf(thr[t].model_name)] = 1
                 /\ "model" \in thr[t].failed

\* C27 witness: the long-lived scorer asked a second time for a model whose
\* blob does not load: fetched again by the second call, still not cached
C27_Witness ==
    /\ fetched[SharedScorer][ModelBlobOf(DegradedModel)] = 2
    /\ loaded[SharedScorer][ModelBlobOf(DegradedModel)] = 0
    /\ ModelFile(DegradedModel) \notin DOMAIN scorers[SharedScorer]._models
    /\ \E t \in DOMAIN thr :
          /\ thr[t].pc = "returned"
          /\ thr[t].scorer = SharedScorer
          /\ thr[t].attempts[ModelBlobOf(DegradedModel)] = 1

(***************************************************************************)
(* The shape of every score_model result                                   *)
(***************************************************************************)
\* the thread called score_model and the call is over
Scored(r) ==
    /\ r.pc \in {"returned", "done"}
    /\ ~(r.pc = "done" /\ r.outcome.kind = "no_customers")

\* C28: every score_model call, whatever failed in loading, normalization
\* or inference, ends with a dictionary returned to the caller, and the
\* dictionary holds 'error' or 'predictions', not both and not neither.
C28_ErrorOrPredictions ==
    \A t \in DOMAIN thr :
        Scored(thr[t]) =>
            /\ thr[t].result # Pending
            /\ ("error" \in thr[t].result.fields)
                  # ("predictions" \in thr[t].result.fields)
            /\ thr[t].failed \cap {"model"} # {}
                  => "error" \in thr[t].result.fields

\* C28 witness: a call that failed after the model was loaded (in
\* normalization or inference) returning 'error' alone, after a call that
\* returned predictions together with shap_error
C28_Witness ==
    /\ \E t \in DOMAIN thr :
          /\ thr[t].pc = "returned"
          /\ thr[t].model # None
          /\ thr[t].result.fields = {"error"}
    /\ \E a \in answers :
          {"predictions", "shap_error"} \subseteq a.result.fields

(***************************************************************************)
(* SpecBaseValue: from the name a caller gives to the base value that      *)
(* score_model uses                                                        *)
(***************************************************************************)
\* portfolio_manager/agent.py, lines 78-80: the model names analyze_ml_model
\* is documented to take
PortfolioModels ==
    {"churn", "crosssell_hvac", "crosssell_insurance", "crosssell_solar",
     "upsell_green_plan", "upsell_efficiency_analysis", "upsell_surge_protection"}

\* sales_agent/config.py, lines 35-42
product_model_mapping ==
    [p \in {"Green Energy Plan", "HVAC System", "Solar Panel Installation",
            "Home Insurance", "Surge Protection", "Energy Efficiency Analysis"} |->
        CASE p = "Green Energy Plan" -> "upsell_green_plan"
          [] p = "HVAC System" -> "crosssell_hvac"
          [] p = "Solar Panel Installation" -> "crosssell_solar"
          [] p = "Home Insurance" -> "crosssell_insurance"
          [] p = "Surge Protection" -> "upsell_surge_protection"
          [] p = "Energy Efficiency Analysis" -> "upsell_efficiency_analysis"]

\* sales_agent/config.py, lines 92-94
get_product_model_name(product_name) ==
    IF product_name \in DOMAIN product_model_mapping
    THEN product_model_mapping[product_name]
    ELSE "crosssell_hvac"

\* names no part of the deployment uses, and products the mapping lacks
OtherModelNames == {"Churn", "churn_model", "hvac", "crosssell_heat_pump", ""}

OtherProducts == {"Heat Pump", "hvac system"}

Given(v) == [st |-> "given", v |-> v]

InitBaseValue ==
    /\ \/ /\ bvProduct = [st |-> "none"]
          /\ \E n \in PortfolioModels \cup OtherModelNames : bvName = Given(n)
       \/ /\ \E p \in DOMAIN product_model_mapping \cup OtherProducts :
                bvProduct = Given(p)
          /\ bvName = Pending
    /\ bvShap \in BOOLEAN
    /\ bvFile = Pending
    /\ bvBase = Pending
    /\ tieOrder = "unobserved"
    /\ pfData = Pending /\ pfCats = Pending /\ pfOut = Pending
    /\ pfAgain = Pending
    /\ shX = Pending /\ shVals = Pending /\ shBase = Pending
    /\ shOut = Pending /\ anEvent = Pending /\ anOut = Pending
    /\ blobs = Pending /\ scorers = Pending /\ thr = Pending
    /\ fetched = Pending /\ loaded = Pending /\ served = Pending
    /\ answers = Pending

\* the sales agent turns the product into a model name
GetProductModelName ==
    /\ bvProduct.st = "given"
    /\ bvName = Pending
    /\ bvName' = Given(get_product_model_name(bvProduct.v))
    /\ UNCHANGED <<bvProduct, bvShap, bvFile, bvBase>>

\* line 281
ConstructFilenames ==
    /\ bvName # Pending
    /\ bvFile = Pending
    /\ bvFile' = Given(ModelFile(bvName.v))
    /\ UNCHANGED <<bvProduct, bvShap, bvName, bvBase>>

\* lines 311 and 319
LookupBaseValue ==
    /\ bvShap
    /\ bvFile # Pending
    /\ bvBase = Pending
    /\ bvBase' = Given(BaseValueOf(bvFile.v))
    /\ UNCHANGED <<bvProduct, bvShap, bvName, bvFile>>

NextBaseValue ==
    \/ GetProductModelName /\ UNCHANGED <<prepVars, explVars, pipeVars, tieOrder>>
    \/ ConstructFilenames /\ UNCHANGED <<prepVars, explVars, pipeVars, tieOrder>>
    \/ LookupBaseValue /\ UNCHANGED <<prepVars, explVars, pipeVars, tieOrder>>

SpecBaseValue == InitBaseValue /\ [][NextBaseValue]_vars

\* the model names of the deployment
DeployedModels ==
    PortfolioModels \cup Range(product_model_mapping) \cup {get_product_model_name("")}

\* C30: for every model name of the deployment (the names analyze_ml_model
\* documents, and every name the sales configuration gives for a product)
\* the base value score_model uses is the table's entry under
\* '<model_name>_model.pkl' and not the fallback 0; for every other model
\* name it is 0.
C30_DeployedModelsHaveBaseValues ==
    bvBase # Pending =>
        IF bvName.v \in DeployedModels
        THEN /\ bvFile.v \in DOMAIN base_values
             /\ bvBase.v = base_values[bvFile.v] * (Unit \div 100)
             /\ bvBase.v # 0
        ELSE bvBase.v = 0

\* C30 witness: the base value looked up for the model of a product of the
\* sales configuration
C30_Witness ==
    /\ bvProduct = Given("Surge Protection")
    /\ bvName = Given("upsell_surge_protection")
    /\ bvBase # Pending
    /\ bvBase.v < 0
====
